---- MODULE Spec2Model ----
(***************************************************************************)
(* A model of nvchecker_source/github.py: the GitHub version source of     *)
(* nvchecker.  A resolution (get_version) reads its configuration entry,   *)
(* resolves the token, selects one strategy, fetches through the shared    *)
(* AsyncCache, parses the payload and classifies a TemporaryError with     *)
(* check_ratelimit.                                                        *)
(*                                                                         *)
(* Python values are modelled as follows.  A str is a sequence of          *)
(* one-character strings (or of longer literal fragments where the code    *)
(* never looks inside them); f-strings, % and str.format are \o.  An       *)
(* optional value (conf.get(...), headers.get(...)) is a record            *)
(* [some, val]; None is [some |-> FALSE].  A dict is the sequence of its   *)
(* <<key, value>> pairs in insertion order.  An exception is a record      *)
(* [type, msg, response].                                                  *)
(***************************************************************************)
EXTENDS Naturals, Integers, Sequences, FiniteSets, TLC

VARIABLES
  conf,      \* conf[p]: the configuration entry of resolution p
  keyman,    \* what keymanager.get_key('github') returns
  pc,        \* pc[p]: "start", "waiting" (suspended in cache.get) or "done"
  waitKey,   \* waitKey[p]: the cache key resolution p awaits
  cache,     \* AsyncCache: key -> [state, out]
  net,       \* the requests handed to the transport, in order
  calls,     \* calls[p]: the cache.get / cache.get_json calls p made
  realOut,   \* realOut[p]: how get_version_real ended
  checked,   \* checked[p]: the exceptions handed to check_ratelimit
  ret,       \* ret[p]: how get_version ended
  log        \* the entries given to logger.error, in order

vars == <<conf, keyman, pc, waitKey, cache, net, calls, realOut, checked, ret, log>>

Procs == DOMAIN pc

-----------------------------------------------------------------------------
(* Bounds of the model *)

MaxTags == 2      \* longest tag-refs array the forge returns
MaxRefLen == 3    \* longest ref string in the exhaustive tag-refs universe

-----------------------------------------------------------------------------
(* Python values *)

None == [some |-> FALSE, val |-> <<>>]
Some(s) == [some |-> TRUE, val |-> s]

\* `not x` for an optional str: None and '' are falsy
Falsy(o) == ~o.some \/ o.val = <<>>

Last(s) == s[Len(s)]

SeqsUpTo(S, n) == UNION {[1..k -> S] : k \in 0..n}

RECURSIVE SplitMax(_, _, _)
\* str.split(sep, maxsplit)
SplitMax(s, sep, maxsplit) ==
  LET idx == {i \in 1..Len(s) : s[i] = sep} IN
  IF maxsplit = 0 \/ idx = {}
  THEN <<s>>
  ELSE LET i == CHOOSE j \in idx : \A k \in idx : j <= k
       IN <<SubSeq(s, 1, i - 1)>> \o SplitMax(SubSeq(s, i + 1, Len(s)), sep, maxsplit - 1)

\* str.split(sep)
Split(s, sep) == SplitMax(s, sep, Len(s))

RECURSIVE RStrip(_, _)
\* str.rstrip(ch)
RStrip(s, ch) ==
  IF s # <<>> /\ Last(s) = ch THEN RStrip(SubSeq(s, 1, Len(s) - 1), ch) ELSE s

RECURSIVE Replace(_, _, _)
\* str.replace(old, new) for a one-character old; new is a str
Replace(s, old, new) ==
  IF s = <<>> THEN <<>>
  ELSE (IF s[1] = old THEN new ELSE <<s[1]>>) \o Replace(SubSeq(s, 2, Len(s)), old, new)

Digit(c) ==
  CASE c = "0" -> 0 [] c = "1" -> 1 [] c = "2" -> 2 [] c = "3" -> 3 [] c = "4" -> 4
    [] c = "5" -> 5 [] c = "6" -> 6 [] c = "7" -> 7 [] c = "8" -> 8 [] c = "9" -> 9

RECURSIVE ParseInt(_)
\* int(s) for a str of decimal digits
ParseInt(s) ==
  IF Len(s) = 1 THEN Digit(s[1])
  ELSE 10 * ParseInt(SubSeq(s, 1, Len(s) - 1)) + Digit(Last(s))

-----------------------------------------------------------------------------
(* Exceptions and outcomes *)

NoResponse == [present |-> FALSE, remaining |-> None, reset |-> None]
NoExc == [type |-> "", msg |-> "", response |-> NoResponse]

RichResult(version, url) == [version |-> version, url |-> url]

Return(r) == [kind |-> "value", items |-> <<r>>, exc |-> NoExc]
ReturnList(rs) == [kind |-> "list", items |-> rs, exc |-> NoExc]
ReturnNone == [kind |-> "none", items |-> <<>>, exc |-> NoExc]
RaiseExc(e) == [kind |-> "raise", items |-> <<>>, exc |-> e]
Raise(type, msg) == RaiseExc([type |-> type, msg |-> msg, response |-> NoResponse])
Running == [kind |-> "running", items |-> <<>>, exc |-> NoExc]

GetVersionError(msg) == Raise("GetVersionError", msg)

-----------------------------------------------------------------------------
(* Module constants of github.py *)

GITHUB_URL(repo) == <<"https://api.github.com/repos/">> \o repo \o <<"/commits">>
GITHUB_LATEST_RELEASE(repo) ==
  <<"https://api.github.com/repos/">> \o repo \o <<"/releases/latest">>
GITHUB_MAX_TAG(repo) ==
  <<"https://api.github.com/repos/">> \o repo \o <<"/git/refs/tags">>
GITHUB_GRAPHQL_URL == <<"https://api.github.com/graphql">>

\* QUERY_LATEST_TAG.format(owner = owner, name = name, query = query)
QUERY_LATEST_TAG(owner, name, query) ==
  <<"{ repository(name: \"">> \o name \o <<"\", owner: \"">> \o owner
    \o <<"\") { refs(refPrefix: \"refs/tags/\", first: 1, query: \"">> \o query
    \o <<"\", orderBy: {field: TAG_COMMIT_DATE, direction: DESC}) { edges { node { name } } } } }">>

\* QUERY_LATEST_RELEASE_WITH_PRERELEASES.format(owner = owner, name = name)
QUERY_LATEST_RELEASE_WITH_PRERELEASES(owner, name) ==
  <<"{ repository(name: \"">> \o name \o <<"\", owner: \"">> \o owner
    \o <<"\") { releases(first: 1, orderBy: {field: CREATED_AT, direction: DESC}) { edges { node { name url } } } } }">>

-----------------------------------------------------------------------------
(* Configuration entries: the inputs of a resolution *)

Repos == {<<"o", "/", "r">>}
Tokens == {None, Some(<<>>), Some(<<"t", "o", "k">>)}
KeymanTokens == {None, Some(<<>>), Some(<<"k", "e", "y">>)}
Branches == {None, Some(<<>>), Some(<<"d", "e", "v">>)}
Paths == {None, Some(<<"s", "r", "c">>)}
Queries == {None, Some(<<"v", "2">>)}

Confs ==
  [github : Repos, token : Tokens, use_latest_tag : BOOLEAN, query : Queries,
   use_latest_release : BOOLEAN, include_prereleases : BOOLEAN,
   branch : Branches, path : Paths, use_max_tag : BOOLEAN]

\* the `name` argument of resolution p
Name(p) == IF p = 1 THEN <<"p", "k", "g", "1">> ELSE <<"p", "k", "g", "2">>

-----------------------------------------------------------------------------
(* Cache keys.  Python tuples of different arity or element type are never  *)
(* equal; `shape` stands for the arity and type of the tuple.               *)

NoKey == [shape |-> "", repo |-> <<>>, query |-> <<>>, token |-> <<>>,
          url |-> <<>>, headers |-> <<>>]
\* (repo, query, token)
TagKey(repo, query, token) ==
  [NoKey EXCEPT !.shape = "repo_query_token", !.repo = repo, !.query = query,
                !.token = token]
\* (repo, token)
ReleaseKey(repo, token) ==
  [NoKey EXCEPT !.shape = "repo_token", !.repo = repo, !.token = token]
\* the key AsyncCache.get_json derives from (url, headers)
JsonKey(url, headers) ==
  [NoKey EXCEPT !.shape = "url_headers", !.url = url, !.headers = headers]

-----------------------------------------------------------------------------
(* get_version_real up to its first await *)

\* token = conf.get('token'); if token is None: token = keymanager.get_key('github')
ResolveToken(c, km) == IF c.token.some THEN c.token ELSE km

\* conf.get('query', '')
ConfQuery(c) == IF c.query.some THEN c.query.val ELSE <<>>

\* urlencode(parameters) of the commits strategy; the values drawn here hold
\* only unreserved characters, which urlencode leaves as they are
UrlencodeParameters(c) ==
  LET sha == IF ~Falsy(c.branch) THEN <<<<"sha=">> \o c.branch.val>> ELSE <<>>
      pth == IF ~Falsy(c.path) THEN <<<<"path=">> \o c.path.val>> ELSE <<>>
      ps == sha \o pth
  IN IF Len(ps) = 2 THEN ps[1] \o <<"&">> \o ps[2]
     ELSE IF Len(ps) = 1 THEN ps[1] ELSE <<>>

RestUrl(c) ==
  IF c.use_latest_release THEN GITHUB_LATEST_RELEASE(c.github)
  ELSE IF c.use_max_tag THEN GITHUB_MAX_TAG(c.github)
  ELSE GITHUB_URL(c.github) \o <<"?">> \o UrlencodeParameters(c)

RestHeaders(token) ==
  <<<<"Accept", <<"application/vnd.github.quicksilver-preview+json">>>>>>
    \o (IF ~Falsy(token) THEN <<<<"Authorization", <<"token ">> \o token.val>>>> ELSE <<>>)

NoCall == [op |-> "raise", out |-> Running, api |-> "", key |-> NoKey, fetcher |-> ""]
TokenRequired ==
  [NoCall EXCEPT !.out = GetVersionError("token not given but it is required")]
CacheCall(api, key, fetcher) ==
  [NoCall EXCEPT !.op = "await", !.api = api, !.key = key, !.fetcher = fetcher]

\* Select with `if token is None:` in place of `if not token:`
SelectTokenIsNone(c, km) ==
  LET repo == c.github
      token == ResolveToken(c, km)
  IN IF c.use_latest_tag
     THEN IF ~token.some THEN TokenRequired
          ELSE CacheCall("get", TagKey(repo, ConfQuery(c), token.val), "get_latest_tag")
     ELSE IF c.use_latest_release /\ c.include_prereleases
     THEN IF ~token.some THEN TokenRequired
          ELSE CacheCall("get", ReleaseKey(repo, token.val),
                         "get_latest_release_with_prereleases")
     ELSE CacheCall("get_json", JsonKey(RestUrl(c), RestHeaders(token)), "_get_json")

\* Select with the use_max_tag test moved before the use_latest_tag test
SelectMaxTagFirst(c, km) ==
  LET repo == c.github
      token == ResolveToken(c, km)
  IN IF c.use_max_tag
     THEN CacheCall("get_json", JsonKey(RestUrl(c), RestHeaders(token)), "_get_json")
     ELSE IF c.use_latest_tag
     THEN IF Falsy(token) THEN TokenRequired
          ELSE CacheCall("get", TagKey(repo, ConfQuery(c), token.val), "get_latest_tag")
     ELSE IF c.use_latest_release /\ c.include_prereleases
     THEN IF Falsy(token) THEN TokenRequired
          ELSE CacheCall("get", ReleaseKey(repo, token.val),
                         "get_latest_release_with_prereleases")
     ELSE CacheCall("get_json", JsonKey(RestUrl(c), RestHeaders(token)), "_get_json")

\* what get_version_real does before it first suspends: it raises, or it
\* awaits one cache call
Select(c, km) ==
  LET repo == c.github
      token == ResolveToken(c, km)
  IN IF c.use_latest_tag
     THEN IF Falsy(token) THEN TokenRequired
          ELSE CacheCall("get", TagKey(repo, ConfQuery(c), token.val), "get_latest_tag")
     ELSE IF c.use_latest_release /\ c.include_prereleases
     THEN IF Falsy(token) THEN TokenRequired
          ELSE CacheCall("get", ReleaseKey(repo, token.val),
                         "get_latest_release_with_prereleases")
     ELSE CacheCall("get_json", JsonKey(RestUrl(c), RestHeaders(token)), "_get_json")

-----------------------------------------------------------------------------
(* The fetchers: the request each cache key stands for *)

BearerHeaders(token) ==
  <<<<"Authorization", <<"bearer ">> \o token>>,
    <<"Content-Type", <<"application/json">>>>>>

\* get_latest_tag up to `await session.post`
get_latest_tag_request(key) ==
  LET parts == Split(key.repo, "/")
      owner == parts[1]
      reponame == parts[2]
  IN [method |-> "POST", url |-> GITHUB_GRAPHQL_URL,
      headers |-> BearerHeaders(key.token),
      json |-> QUERY_LATEST_TAG(owner, reponame, key.query)]

\* get_latest_release_with_prereleases up to `await session.post`
get_latest_release_request(key) ==
  LET parts == Split(key.repo, "/")
      owner == parts[1]
      reponame == parts[2]
  IN [method |-> "POST", url |-> GITHUB_GRAPHQL_URL,
      headers |-> BearerHeaders(key.token),
      json |-> QUERY_LATEST_RELEASE_WITH_PRERELEASES(owner, reponame)]

\* AsyncCache.get_json: a GET of the url with the headers
get_json_request(key) ==
  [method |-> "GET", url |-> key.url, headers |-> key.headers, json |-> <<>>]

Request(key) ==
  CASE key.shape = "repo_query_token" -> get_latest_tag_request(key)
    [] key.shape = "repo_token" -> get_latest_release_request(key)
    [] key.shape = "url_headers" -> get_json_request(key)

-----------------------------------------------------------------------------
(* The forge: what the transport can answer to a request *)

TagNames == {<<"v", "1", ".", "2">>}
ReleaseUrls == {<<"https://github.com/o/r/releases/tag/v1.2">>}
CommitDates ==
  {<<"2", "0", "2", "3", "-", "0", "5", "-", "0", "1", "T",
     "1", "2", ":", "0", "0", ":", "0", "0", "Z">>}
CommitUrls == {<<"https://github.com/o/r/commit/abc">>}

\* j['data']['repository']['refs']['edges']
TagEdges == {<<>>} \cup {<<[node |-> [name |-> n]]>> : n \in TagNames}
\* j['data']['repository']['releases']['edges']
ReleaseEdges ==
  {<<>>} \cup {<<[node |-> [name |-> n, url |-> u]]>> : n \in TagNames, u \in ReleaseUrls}

JsonArray(elems) == [shape |-> "array", elems |-> elems]
JsonObject(pairs) == [shape |-> "object", elems |-> pairs]

\* the body of /releases/latest: a release, one without html_url, an error
\* object without tag_name, and the empty object
ReleaseObjects ==
  {JsonObject(<<>>), JsonObject(<<<<"message", <<"Not Found">>>>>>)}
    \cup {JsonObject(<<<<"tag_name", n>>, <<"html_url", u>>>>) : n \in TagNames, u \in ReleaseUrls}
    \cup {JsonObject(<<<<"tag_name", n>>>>) : n \in TagNames}

\* the body of /commits: an array of commits, newest first
CommitArrays ==
  {JsonArray(<<>>)}
    \cup {JsonArray(<<[commit |-> [committer |-> [date |-> d]], html_url |-> u]>>) :
            d \in CommitDates, u \in CommitUrls}

\* the bodies of /git/refs/tags over a universe of ref strings
RefArrays(refs) == {JsonArray(a) : a \in SeqsUpTo({[ref |-> r] : r \in refs}, MaxTags)}

\* 'refs/tags/v1.2.3', 'refs/tags/a/b', and refs with fewer than two '/'
RefSamples ==
  {<<"r", "e", "f", "s", "/", "t", "a", "g", "s", "/", "v", "1", ".", "2", ".", "3">>,
   <<"r", "e", "f", "s", "/", "t", "a", "g", "s", "/", "a", "/", "b">>,
   <<"a", "/", "b">>}
\* every ref string over '/' and 'a' of at most MaxRefLen characters
RefStrings == SeqsUpTo({"/", "a"}, MaxRefLen)

Endpoint(req) ==
  IF req.url = GITHUB_GRAPHQL_URL
  THEN (IF \E i \in 1..Len(req.json) : req.json[i] = QUERY_LATEST_TAG(<<>>, <<>>, <<>>)[3]
        THEN "graphql_refs" ELSE "graphql_releases")
  ELSE IF Last(req.url) = "/releases/latest" THEN "releases_latest"
  ELSE IF Last(req.url) = "/git/refs/tags" THEN "tag_refs"
  ELSE "commits"

Payloads(req, refs) ==
  CASE Endpoint(req) = "graphql_refs" -> TagEdges
    [] Endpoint(req) = "graphql_releases" -> ReleaseEdges
    [] Endpoint(req) = "releases_latest" -> ReleaseObjects
    [] Endpoint(req) = "tag_refs" -> RefArrays(refs)
    [] Endpoint(req) = "commits" -> CommitArrays

\* the headers of a failed response: strings of decimal digits
RemainingHeaders == {None, Some(<<"0">>), Some(<<"5">>)}
ResetHeaders == {None, Some(<<"1", "7", "0", "0", "0", "0", "0", "0", "0", "0">>)}

Responses ==
  {NoResponse} \cup [present : {TRUE}, remaining : RemainingHeaders, reset : ResetHeaders]

TemporaryErrors ==
  [type : {"TemporaryError"}, msg : {"transport failure"}, response : Responses]

-----------------------------------------------------------------------------
(* The fetchers: what they make of the response *)

\* get_latest_tag after `res.json()`
get_latest_tag_result(key, refs) ==
  IF refs = <<>> THEN GetVersionError("no tag found")
  ELSE LET version == refs[1].node.name
       IN Return(RichResult(version,
            <<"https://github.com/">> \o key.repo \o <<"/releases/tag/">> \o version))

\* get_latest_release_with_prereleases after `res.json()`
get_latest_release_result(key, refs) ==
  IF refs = <<>> THEN GetVersionError("no release found")
  ELSE Return(RichResult(refs[1].node.name, refs[1].node.url))

\* AsyncCache.get_json hands out the decoded body
get_json_result(key, j) == [kind |-> "json", items |-> <<>>, exc |-> NoExc, data |-> j]

FetcherResult(key, j) ==
  CASE key.shape = "repo_query_token" -> get_latest_tag_result(key, j)
    [] key.shape = "repo_token" -> get_latest_release_result(key, j)
    [] key.shape = "url_headers" -> get_json_result(key, j)

-----------------------------------------------------------------------------
(* get_version_real after `data = await cache.get_json(...)` *)

HasKey(data, k) ==
  data.shape = "object" /\ \E i \in 1..Len(data.elems) : data.elems[i][1] = k
Lookup(data, k) ==
  LET i == CHOOSE j \in 1..Len(data.elems) : data.elems[j][1] = k IN data.elems[i][2]

\* TagOfRef with split('/') in place of split('/', 2)
TagOfRefSplitAll(ref) == Last(Split(ref, "/"))

\* ref['ref'].split('/', 2)[-1]
TagOfRef(ref) == Last(SplitMax(ref, "/", 2))

\* the `if use_max_tag:` block.  Iterating a JSON object yields its keys,
\* which are strings, and ref['ref'] of a string raises TypeError.
MaxTagResult(repo, data) ==
  IF data.shape = "object" /\ data.elems # <<>>
  THEN Raise("TypeError", "string indices must be integers")
  ELSE LET refs == IF data.shape = "array" THEN data.elems ELSE <<>>
           tags == [i \in 1..Len(refs) |->
                      RichResult(TagOfRef(refs[i].ref),
                        <<"https://github.com/">> \o repo \o <<"/releases/tag/">>
                          \o TagOfRef(refs[i].ref))]
       IN IF tags = <<>>
          THEN GetVersionError("No tag found in upstream repository.")
          ELSE ReturnList(tags)

\* the `if use_latest_release:` block
LatestReleaseResult(data) ==
  IF ~HasKey(data, "tag_name")
  THEN GetVersionError("No release found in upstream repository.")
  ELSE IF ~HasKey(data, "html_url") THEN Raise("KeyError", "html_url")
  ELSE Return(RichResult(Lookup(data, "tag_name"), Lookup(data, "html_url")))

\* date.rstrip('Z').replace('-', '').replace(':', '').replace('T', '.')
CommitVersion(date) ==
  Replace(Replace(Replace(RStrip(date, "Z"), "-", <<>>), ":", <<>>), "T", <<".">>)

\* the final `else:` block; data[0] of an empty list raises IndexError
CommitResult(data) ==
  IF data.shape = "object" THEN Raise("KeyError", "0")
  ELSE IF data.elems = <<>> THEN Raise("IndexError", "list index out of range")
  ELSE Return(RichResult(CommitVersion(data.elems[1].commit.committer.date),
                         data.elems[1].html_url))

ParseRest(c, data) ==
  IF c.use_max_tag THEN MaxTagResult(c.github, data)
  ELSE IF c.use_latest_release THEN LatestReleaseResult(data)
  ELSE CommitResult(data)

\* what `await cache.get(...)` / `await cache.get_json(...)` evaluates to in
\* get_version_real, and what the code after it returns or raises
AfterAwait(c, out) ==
  IF out.kind = "json" THEN ParseRest(c, out.data) ELSE out

-----------------------------------------------------------------------------
(* check_ratelimit and get_version *)

\* int(res.headers.get(header, default))
HeaderInt(h, default) == IF h.some THEN ParseInt(h.val) ELSE default

NotChecked == [out |-> Running, logs |-> <<>>, checked |-> <<>>]

RateLimitLog(name, reset) ==
  [level |-> "error", event |-> <<"rate limited, resetting at ">>,
   name |-> name, reset |-> reset]

\* check_ratelimit that logs the exhausted rate limit and then re-raises
check_ratelimit_log_and_raise(exc, name) ==
  LET res == exc.response
      base == [NotChecked EXCEPT !.checked = <<exc>>]
  IN IF ~res.present THEN [base EXCEPT !.out = RaiseExc(exc)]
     ELSE LET n == HeaderInt(res.remaining, -1)
          IN IF n = 0
             THEN IF ~res.reset.some
                  THEN [base EXCEPT !.out =
                          Raise("TypeError", "int() argument must be a string or a number")]
                  ELSE [base EXCEPT !.out = RaiseExc(exc),
                          !.logs = <<RateLimitLog(name, ParseInt(res.reset.val))>>]
             ELSE [base EXCEPT !.out = RaiseExc(exc)]

\* check_ratelimit with `if n <= 0:` in place of `if n == 0:`
check_ratelimit_le_zero(exc, name) ==
  LET res == exc.response
      base == [NotChecked EXCEPT !.checked = <<exc>>]
  IN IF ~res.present THEN [base EXCEPT !.out = RaiseExc(exc)]
     ELSE LET n == HeaderInt(res.remaining, -1)
          IN IF n <= 0
             THEN IF ~res.reset.some
                  THEN [base EXCEPT !.out =
                          Raise("TypeError", "int() argument must be a string or a number")]
                  ELSE [base EXCEPT !.out = ReturnNone,
                          !.logs = <<RateLimitLog(name, ParseInt(res.reset.val))>>]
             ELSE [base EXCEPT !.out = RaiseExc(exc)]

\* check_ratelimit(exc, name) called in the except block of get_version: a
\* bare `raise` re-raises exc; falling off the end makes get_version return None.
\* `if not res` is taken to tell an absent response (None) from a present one.
check_ratelimit(exc, name) ==
  LET res == exc.response
      base == [NotChecked EXCEPT !.checked = <<exc>>]
  IN IF ~res.present THEN [base EXCEPT !.out = RaiseExc(exc)]
     ELSE LET n == HeaderInt(res.remaining, -1)
          IN IF n = 0
             THEN IF ~res.reset.some
                  THEN [base EXCEPT !.out =
                          Raise("TypeError", "int() argument must be a string or a number")]
                  ELSE [base EXCEPT !.out = ReturnNone,
                          !.logs = <<RateLimitLog(name, ParseInt(res.reset.val))>>]
             ELSE [base EXCEPT !.out = RaiseExc(exc)]

\* get_version: try: return await get_version_real(...)
\*              except TemporaryError as e: check_ratelimit(e, name)
get_version(real, name) ==
  IF real.kind = "raise" /\ real.exc.type = "TemporaryError"
  THEN check_ratelimit(real.exc, name)
  ELSE [NotChecked EXCEPT !.out = real]

-----------------------------------------------------------------------------
(* The AsyncCache *)

\* an entry: the fetcher's request, whether its future is resolved, the body
\* the transport delivered (ok = FALSE: it raised instead) and the future's
\* result or exception
Pending(req) ==
  [state |-> "pending", req |-> req, ok |-> FALSE, body |-> <<>>, out |-> Running]
Done(req, ok, body, out) ==
  [state |-> "done", req |-> req, ok |-> ok, body |-> body, out |-> out]

\* AsyncCache.get(key, func): the first caller of a key starts func(key), which
\* sends its request; every caller of the key awaits that one future
CacheGet(key) ==
  IF key \in DOMAIN cache
  THEN cache' = cache /\ net' = net
  ELSE /\ cache' = [k \in DOMAIN cache \cup {key} |->
                      IF k = key THEN Pending(Request(key)) ELSE cache[k]]
       /\ net' = Append(net, Request(key))

-----------------------------------------------------------------------------
(* Actions *)

\* resolution p leaves get_version_real with `real`, and get_version with it
Finish(p, real) ==
  LET gv == get_version(real, Name(p))
  IN /\ realOut' = [realOut EXCEPT ![p] = real]
     /\ checked' = [checked EXCEPT ![p] = gv.checked]
     /\ ret' = [ret EXCEPT ![p] = gv.out]
     /\ log' = log \o gv.logs
     /\ pc' = [pc EXCEPT ![p] = "done"]

\* get_version(name, conf) runs to its first await, or to the end
Call(p) ==
  /\ pc[p] = "start"
  /\ LET s == Select(conf[p], keyman)
     IN IF s.op = "raise"
        THEN /\ Finish(p, s.out)
             /\ UNCHANGED <<conf, keyman, waitKey, cache, net, calls>>
        ELSE /\ calls' = [calls EXCEPT ![p] =
                            Append(@, [api |-> s.api, key |-> s.key, fetcher |-> s.fetcher])]
             /\ CacheGet(s.key)
             /\ waitKey' = [waitKey EXCEPT ![p] = s.key]
             /\ pc' = [pc EXCEPT ![p] = "waiting"]
             /\ UNCHANGED <<conf, keyman, realOut, checked, ret, log>>

\* the transport answers the request of key k with a body
RespondOk(k, refs) ==
  /\ k \in DOMAIN cache
  /\ cache[k].state = "pending"
  /\ \E j \in Payloads(cache[k].req, refs) :
       cache' = [cache EXCEPT ![k] = Done(@.req, TRUE, j, FetcherResult(k, j))]
  /\ UNCHANGED <<conf, keyman, pc, waitKey, net, calls, realOut, checked, ret, log>>

\* the transport fails the request of key k with a TemporaryError
RespondFail(k) ==
  /\ k \in DOMAIN cache
  /\ cache[k].state = "pending"
  /\ \E e \in TemporaryErrors :
       cache' = [cache EXCEPT ![k] = Done(@.req, FALSE, <<>>, RaiseExc(e))]
  /\ UNCHANGED <<conf, keyman, pc, waitKey, net, calls, realOut, checked, ret, log>>

\* resolution p resumes from its await and runs to the end of get_version
Resume(p) ==
  /\ pc[p] = "waiting"
  /\ cache[waitKey[p]].state = "done"
  /\ Finish(p, AfterAwait(conf[p], cache[waitKey[p]].out))
  /\ UNCHANGED <<conf, keyman, waitKey, cache, net, calls>>

-----------------------------------------------------------------------------
(* Specifications *)

InitOf(procs, confs, keymans) ==
  /\ conf \in [procs -> confs]
  /\ keyman \in keymans
  /\ pc = [p \in procs |-> "start"]
  /\ waitKey = [p \in procs |-> NoKey]
  /\ cache = [k \in {} |-> Pending(<<>>)]
  /\ net = <<>>
  /\ calls = [p \in procs |-> <<>>]
  /\ realOut = [p \in procs |-> Running]
  /\ checked = [p \in procs |-> <<>>]
  /\ ret = [p \in procs |-> Running]
  /\ log = <<>>

\* one resolution, every configuration, tag-refs bodies over RefSamples
Init == InitOf({1}, Confs, KeymanTokens)

Next ==
  \/ \E p \in Procs : Call(p)
  \/ \E k \in DOMAIN cache : RespondOk(k, RefSamples)
  \/ \E k \in DOMAIN cache : RespondFail(k)
  \/ \E p \in Procs : Resume(p)

Spec == Init /\ [][Next]_vars

\* one resolution by the max-tag strategy, tag-refs bodies over every ref
\* string within the bounds
TagConfs ==
  {c \in Confs : /\ ~c.use_latest_tag /\ ~c.use_latest_release /\ ~c.include_prereleases
                 /\ c.use_max_tag /\ c.branch = None /\ c.path = None /\ c.query = None}

InitTags == InitOf({1}, TagConfs, {None})

NextTags ==
  \/ \E p \in Procs : Call(p)
  \/ \E k \in DOMAIN cache : RespondOk(k, RefSamples \cup RefStrings)
  \/ \E k \in DOMAIN cache : RespondFail(k)
  \/ \E p \in Procs : Resume(p)

SpecTags == InitTags /\ [][NextTags]_vars

\* two concurrent resolutions sharing one AsyncCache
ConcConfs ==
  {c \in Confs : /\ c.token # Some(<<>>) /\ c.branch = None /\ c.path = None
                 /\ c.query = None}

InitConc == InitOf({1, 2}, ConcConfs, {None})

SpecConc == InitConc /\ [][Next]_vars

-----------------------------------------------------------------------------
(* Vocabulary of the properties, stated from the configuration and the      *)
(* recorded history, not from the operators that model the code             *)

\* the strategies that mandate a token
NeedsToken(c) == c.use_latest_tag \/ (c.use_latest_release /\ c.include_prereleases)

\* the conf token, else the keymanager's
TokenOf(c) == IF c.token = None THEN keyman ELSE c.token

NoToken(c) == TokenOf(c) = None \/ TokenOf(c) = Some(<<>>)

\* the REST path: neither GraphQL strategy is selected
RestPath(c) == ~c.use_latest_tag /\ ~(c.use_latest_release /\ c.include_prereleases)

\* the entry of the cache resolution p awaited
Entry(p) == cache[waitKey[p]]

\* resolution p is done and its fetch delivered a body
Fetched(p) == pc[p] = "done" /\ calls[p] # <<>> /\ Entry(p).ok

\* get_version_real of resolution p raised a TemporaryError
RaisedTemporary(p) ==
  pc[p] = "done" /\ realOut[p].kind = "raise" /\ realOut[p].exc.type = "TemporaryError"

\* the log entries that carry the project name of resolution p
LogOf(p) == {i \in 1..Len(log) : log[i].name = Name(p)}

RemainingIsZero(res) == res.present /\ res.remaining = Some(<<"0">>)

-----------------------------------------------------------------------------
(* C1 *)

\* C1: a configuration that selects a token-requiring strategy and whose
\* resolved token is None or empty never makes a cache call or a request, and
\* get_version_real ends with GetVersionError('token not given but it is
\* required').
C1_TokenRequiredBeforeAnyCall ==
  \A p \in Procs :
    (NeedsToken(conf[p]) /\ NoToken(conf[p])) =>
      /\ pc[p] # "waiting"
      /\ calls[p] = <<>>
      /\ net = <<>>
      /\ DOMAIN cache = {}
      /\ pc[p] = "done" =>
           realOut[p] = GetVersionError("token not given but it is required")

\* the latest-release-with-prereleases strategy with an empty keymanager token
C1_Witness ==
  \E p \in Procs :
    /\ pc[p] = "done"
    /\ ~conf[p].use_latest_tag /\ conf[p].use_latest_release
    /\ conf[p].include_prereleases
    /\ conf[p].token = None /\ keyman = Some(<<>>)
    /\ realOut[p].kind = "raise"

-----------------------------------------------------------------------------
(* C2 *)

\* C2: with use_latest_tag set and a non-empty token, whatever the other
\* options are, the resolution makes exactly one cache call, cache.get with key
\* (repo, query, token) and fetcher get_latest_tag, and the only request sent is
\* the latest-tag GraphQL query: no REST request, no latest-release query.
C2_LatestTagWins ==
  \A p \in Procs :
    (conf[p].use_latest_tag /\ ~NoToken(conf[p]) /\ pc[p] # "start") =>
      /\ calls[p] =
           <<[api |-> "get",
              key |-> [shape |-> "repo_query_token", repo |-> conf[p].github,
                       query |-> (IF conf[p].query = None THEN <<>> ELSE conf[p].query.val),
                       token |-> TokenOf(conf[p]).val, url |-> <<>>, headers |-> <<>>],
              fetcher |-> "get_latest_tag"]>>
      /\ Len(net) = 1
      /\ net[1].method = "POST"
      /\ net[1].url = GITHUB_GRAPHQL_URL
      /\ Endpoint(net[1]) = "graphql_refs"

\* every other flag set too, and the resolution returned a version
C2_Witness ==
  \E p \in Procs :
    /\ pc[p] = "done"
    /\ conf[p].use_latest_tag /\ conf[p].use_max_tag
    /\ conf[p].use_latest_release /\ conf[p].include_prereleases
    /\ conf[p].branch # None /\ conf[p].path # None
    /\ ret[p].kind = "value"

-----------------------------------------------------------------------------
(* C3 *)

\* what the parser of the strategy that owns an endpoint makes of its body
ParserOf(endpoint, c, body) ==
  CASE endpoint = "releases_latest" -> LatestReleaseResult(body)
    [] endpoint = "tag_refs" -> MaxTagResult(c.github, body)
    [] endpoint = "commits" -> CommitResult(body)

\* C3: on the REST path the endpoint requested and the parser applied belong
\* to one strategy, use_latest_release before use_max_tag before commits: the
\* result is what the parser of the requested endpoint makes of the body.
C3_OneStrategyPerResolution ==
  \A p \in Procs :
    (RestPath(conf[p]) /\ Fetched(p)) =>
      /\ Endpoint(Entry(p).req) =
           (IF conf[p].use_latest_release THEN "releases_latest"
            ELSE IF conf[p].use_max_tag THEN "tag_refs" ELSE "commits")
      /\ realOut[p] = ParserOf(Endpoint(Entry(p).req), conf[p], Entry(p).body)

-----------------------------------------------------------------------------
(* C4 *)

\* C4: when get_version_real raises a TemporaryError whose response has
\* X-RateLimit-Remaining 0 and an X-RateLimit-Reset timestamp, get_version logs
\* exactly one error entry with the project name and the reset time and returns
\* None.
C4_RateLimitSuppressed ==
  \A p \in Procs :
    (/\ RaisedTemporary(p)
     /\ RemainingIsZero(realOut[p].exc.response)
     /\ realOut[p].exc.response.reset # None) =>
      /\ ret[p] = ReturnNone
      /\ Cardinality(LogOf(p)) = 1
      /\ \A i \in LogOf(p) : log[i].level = "error" /\ log[i].reset = 1700000000

C4_Witness ==
  \E p \in Procs :
    /\ RaisedTemporary(p)
    /\ RemainingIsZero(realOut[p].exc.response)
    /\ realOut[p].exc.response.reset # None
    /\ ret[p].kind = "none"

-----------------------------------------------------------------------------
(* C5 *)

\* C5: when get_version_real raises a TemporaryError without a response, or
\* with one whose X-RateLimit-Remaining is absent or a non-zero integer,
\* get_version raises that same exception and logs nothing.
C5_OtherFailuresReraised ==
  \A p \in Procs :
    (RaisedTemporary(p) /\ ~RemainingIsZero(realOut[p].exc.response)) =>
      /\ ret[p] = realOut[p]
      /\ ret[p].kind = "raise"
      /\ LogOf(p) = {}

\* the header is absent on a response that is present
C5_Witness ==
  \E p \in Procs :
    /\ RaisedTemporary(p)
    /\ realOut[p].exc.response.present
    /\ realOut[p].exc.response.remaining = None
    /\ ret[p].kind = "raise"

-----------------------------------------------------------------------------
(* C6 *)

\* C6: get_version ends without a result and without raising exactly when a
\* TemporaryError with a response and X-RateLimit-Remaining 0 was raised; a
\* GetVersionError leaves get_version unchanged and is never handed to
\* check_ratelimit.
C6_OnlyRateLimitSwallowed ==
  \A p \in Procs :
    pc[p] = "done" =>
      /\ ret[p].kind = "none" <=>
           (RaisedTemporary(p) /\ RemainingIsZero(realOut[p].exc.response))
      /\ (realOut[p].kind = "raise" /\ realOut[p].exc.type = "GetVersionError") =>
           (ret[p] = realOut[p] /\ checked[p] = <<>>)

-----------------------------------------------------------------------------
(* C7 *)

Slashes(r) == {i \in 1..Len(r) : r[i] = "/"}

\* r after its second '/', or after its only '/', or r itself
LastOfThreeParts(r) ==
  IF Slashes(r) = {} THEN r
  ELSE LET first == CHOOSE i \in Slashes(r) : \A j \in Slashes(r) : i <= j
           rest == Slashes(r) \ {first}
           cut == IF rest = {} THEN first
                  ELSE CHOOSE i \in rest : \A j \in rest : i <= j
       IN SubSeq(r, cut + 1, Len(r))

\* the configuration selects the max-tag strategy
MaxTagStrategy(c) == RestPath(c) /\ ~c.use_latest_release /\ c.use_max_tag

\* C7: the max-tag strategy returns one record per ref of the upstream array,
\* in the array's order, with version the last of the at most three parts of
\* the ref split on '/' and url https://github.com/{repo}/releases/tag/{version};
\* an empty array raises GetVersionError('No tag found in upstream
\* repository.').
C7_MaxTagList ==
  \A p \in Procs :
    (MaxTagStrategy(conf[p]) /\ Fetched(p)) =>
      LET refs == Entry(p).body.elems
      IN IF refs = <<>>
         THEN realOut[p] = GetVersionError("No tag found in upstream repository.")
         ELSE /\ realOut[p].kind = "list"
              /\ ret[p] = realOut[p]
              /\ Len(realOut[p].items) = Len(refs)
              /\ \A i \in 1..Len(refs) :
                   /\ realOut[p].items[i].version = LastOfThreeParts(refs[i].ref)
                   /\ realOut[p].items[i].url =
                        <<"https://github.com/">> \o conf[p].github
                          \o <<"/releases/tag/">> \o LastOfThreeParts(refs[i].ref)

\* 'refs/tags/a/b' then 'refs/tags/v1.2.3' came back as 'a/b' then 'v1.2.3'
C7_Witness ==
  \E p \in Procs :
    /\ MaxTagStrategy(conf[p]) /\ Fetched(p)
    /\ Len(ret[p].items) = 2
    /\ ret[p].items[1].version = <<"a", "/", "b">>
    /\ ret[p].items[2].version = <<"v", "1", ".", "2", ".", "3">>

-----------------------------------------------------------------------------
(* C8 *)

\* C8: two resolutions that made their cache call with the same key caused
\* one request between them and ended the same way; and resolutions with the
\* same key stand for the same request.
C8_OneRequestSameResult ==
  \A p, q \in Procs :
    (/\ p # q
     /\ pc[p] = "done" /\ pc[q] = "done"
     /\ calls[p] # <<>> /\ calls[q] # <<>>
     /\ calls[p][1].key = calls[q][1].key) =>
      /\ Len(net) = 1
      /\ Entry(p).req = Entry(q).req
      /\ realOut[p] = realOut[q]
      /\ ret[p] = ret[q]

-----------------------------------------------------------------------------
(* C9 *)

\* C9: every TemporaryError handed to check_ratelimit is either suppressed
\* after one log entry or re-raised unchanged; no other error comes out.
C9_ClassifierTotal ==
  \A p \in Procs :
    checked[p] # <<>> =>
      \/ ret[p] = ReturnNone /\ Cardinality(LogOf(p)) = 1
      \/ ret[p] = RaiseExc(checked[p][1]) /\ LogOf(p) = {}

-----------------------------------------------------------------------------
(* C10 *)

\* the body is structurally empty for its endpoint
StructurallyEmpty(endpoint, body) ==
  CASE endpoint = "graphql_refs" -> body = <<>>
    [] endpoint = "graphql_releases" -> body = <<>>
    [] endpoint = "releases_latest" ->
         \A i \in 1..Len(body.elems) : body.elems[i][1] # "tag_name"
    [] endpoint = "tag_refs" -> body.elems = <<>>
    [] endpoint = "commits" -> body.elems = <<>>

\* C10: a successful call whose body is structurally empty makes
\* get_version_real raise a GetVersionError, for every strategy.
C10_EmptyDataIsGetVersionError ==
  \A p \in Procs :
    (Fetched(p) /\ StructurallyEmpty(Endpoint(Entry(p).req), Entry(p).body)) =>
      (realOut[p].kind = "raise" /\ realOut[p].exc.type = "GetVersionError")

====
